---------------------------- MODULE Spec2Model ----------------------------
(***************************************************************************)
(* A model of tea_data_file_conversion/processor.py: the schema validator  *)
(* (validate_yaml_config), the fixed-width decoder                         *)
(* (process_fixed_width_file) and the orchestration (process_file).        *)
(*                                                                         *)
(* Text that the code indexes (input lines, the header) is a sequence of   *)
(* one-character strings; names that the code only compares and           *)
(* concatenates (column names, path components) are strings.               *)
(***************************************************************************)
EXTENDS Integers, Sequences, FiniteSets, TLC

(***************************************************************************)
(* Python values as yaml.safe_load produces them: a tag and a payload.     *)
(***************************************************************************)
PyInt(n)  == [t |-> "int",  v |-> n]
PyBool(b) == [t |-> "bool", v |-> b]
PyStr(s)  == [t |-> "str",  v |-> s]
PyNone    == [t |-> "none", v |-> 0]
PyDict(f) == [t |-> "dict", v |-> f]
PyList(s) == [t |-> "list", v |-> s]

\* isinstance(x, int): bool is a subclass of int in Python.
IsInstanceInt(x)  == x.t \in {"int", "bool"}
IsInstanceBool(x) == x.t = "bool"
IsInstanceStr(x)  == x.t = "str"
IsInstanceDict(x) == x.t = "dict"
IsInstanceList(x) == x.t = "list"

\* The integer an int (or bool) stands for in arithmetic: True - 1 = 0.
IntValue(x) == IF x.t = "bool" THEN (IF x.v THEN 1 ELSE 0) ELSE x.v

\* "key in field" for a dict.
HasKey(d, key) == key \in DOMAIN d.v

NoError == [raised |-> FALSE, index |-> 0, msg |-> "none"]
Raise(i, m) == [raised |-> TRUE, index |-> i, msg |-> m]

(***************************************************************************)
(* validate_yaml_config: the checks of one element of config["fields"],    *)
(* in the order of the code; the result is the first violation.            *)
(***************************************************************************)
ValidateField(field, index) ==
  IF ~IsInstanceDict(field) THEN Raise(index, "is not a dictionary")
  ELSE IF ~HasKey(field, "start") THEN Raise(index, "is missing required key 'start'")
  ELSE IF ~HasKey(field, "end") THEN Raise(index, "is missing required key 'end'")
  ELSE IF ~HasKey(field, "output_field")
    THEN Raise(index, "is missing required key 'output_field'")
  ELSE IF ~IsInstanceInt(field.v.start) THEN Raise(index, "key 'start' must be an integer")
  ELSE IF ~IsInstanceInt(field.v.end) THEN Raise(index, "key 'end' must be an integer")
  ELSE IF ~IsInstanceStr(field.v.output_field)
    THEN Raise(index, "key 'output_field' must be a string")
  ELSE IF HasKey(field, "keep") /\ ~IsInstanceBool(field.v.keep)
    THEN Raise(index, "key 'keep' must be a boolean")
  ELSE NoError

validate_yaml_config(config) ==
  IF ~IsInstanceDict(config) THEN Raise(0, "should be a dictionary at the top level")
  ELSE IF ~HasKey(config, "fields") THEN Raise(0, "is missing the required key 'fields'")
  ELSE IF ~IsInstanceList(config.v.fields) THEN Raise(0, "key 'fields' should be a list")
  ELSE LET fields == config.v.fields.v
           bad == {i \in 1..Len(fields) : ValidateField(fields[i], i - 1).raised}
       IN IF bad = {} THEN NoError
          ELSE LET first == CHOOSE i \in bad : \A j \in bad : i <= j
               IN ValidateField(fields[first], first - 1)


(***************************************************************************)
(* Text helpers.                                                           *)
(***************************************************************************)
Range(s) == {s[i] : i \in 1..Len(s)}

Min(a, b) == IF a <= b THEN a ELSE b

Whitespace == {" "}

\* str.strip(): leading and trailing whitespace removed.
RECURSIVE LStrip(_)
LStrip(s) == IF s # <<>> /\ Head(s) \in Whitespace THEN LStrip(Tail(s)) ELSE s

RECURSIVE RStrip(_)
RStrip(s) ==
  IF s # <<>> /\ s[Len(s)] \in Whitespace THEN RStrip(SubSeq(s, 1, Len(s) - 1)) ELSE s

Strip(s) == RStrip(LStrip(s))

\* s[from:to] for 0 <= from, 0 <= to: positions past the end yield nothing.
PySlice(s, from, to) ==
  IF from >= Min(to, Len(s)) THEN <<>> ELSE SubSeq(s, from + 1, Min(to, Len(s)))

DigitChars == <<"0", "1", "2", "3", "4", "5", "6", "7", "8", "9">>

DigitValue(c) == (CHOOSE i \in 1..Len(DigitChars) : DigitChars[i] = c) - 1

\* int(text) raises ValueError unless text, stripped, is a non-empty run of
\* digits (signs and underscores are outside the modelled alphabet).
IntParses(text) ==
  LET s == Strip(text) IN s # <<>> /\ \A i \in 1..Len(s) : s[i] \in Range(DigitChars)

RECURSIVE DigitsValue(_)
DigitsValue(s) ==
  IF s = <<>> THEN 0
  ELSE 10 * DigitsValue(SubSeq(s, 1, Len(s) - 1)) + DigitValue(s[Len(s)])

ParseInt(text) == DigitsValue(Strip(text))

(***************************************************************************)
(* process_fixed_width_file, lines 86-96: spans, names and kept names.     *)
(***************************************************************************)
ColSpec(field) == [from |-> IntValue(field.v.start) - 1, to |-> IntValue(field.v.end)]

\* pd.isna of a scalar: None counts as missing.
IsNa(x) == x.t = "none"

\* field["mapped_field_name"] raises KeyError when the key is absent.
ColNameRaises(field, filter_on) == filter_on /\ ~HasKey(field, "mapped_field_name")

ColName(field, filter_on) ==
  IF filter_on
    THEN IF ~IsNa(field.v.mapped_field_name)
           THEN field.v.mapped_field_name.v
           ELSE field.v.output_field.v
    ELSE field.v.output_field.v

\* field.get("keep", False)
FieldKeep(field) == IF HasKey(field, "keep") THEN field.v.keep.v ELSE FALSE

ColNames(fields, filter_on) == [i \in 1..Len(fields) |-> ColName(fields[i], filter_on)]

RECURSIVE KeepColumnsFrom(_, _, _)
KeepColumnsFrom(fields, filter_on, i) ==
  IF i > Len(fields) THEN <<>>
  ELSE (IF FieldKeep(fields[i]) THEN <<ColName(fields[i], filter_on)>> ELSE <<>>)
       \o KeepColumnsFrom(fields, filter_on, i + 1)

KeepColumns(fields, filter_on) == KeepColumnsFrom(fields, filter_on, 1)

(***************************************************************************)
(* process_fixed_width_file, lines 98-109: unique column names.            *)
(***************************************************************************)
Suffixed(col_name, count) == col_name \o "_" \o ToString(count)

\* The while loop of lines 102-106, entered with count.
RECURSIVE NewColName(_, _, _)
NewColName(col_name, unique, count) ==
  IF Suffixed(col_name, count) \in Range(unique)
    THEN NewColName(col_name, unique, count + 1)
    ELSE Suffixed(col_name, count)

\* NextUniqueName without its while loop: the repeat gets the suffix _1 without looking for a free one.
NextUniqueNameNoLoop(col_name, unique) ==
  IF col_name \in Range(unique) THEN Suffixed(col_name, 1) ELSE col_name

\* NextUniqueName with count initialised to 2 instead of 1.
NextUniqueNameCountFromTwo(col_name, unique) ==
  IF col_name \in Range(unique) THEN NewColName(col_name, unique, 2) ELSE col_name

\* One iteration of the for loop: the name appended for col_name.
NextUniqueName(col_name, unique) ==
  IF col_name \in Range(unique) THEN NewColName(col_name, unique, 1) ELSE col_name

RECURSIVE UniqueFrom(_, _, _)
UniqueFrom(col_names, unique, i) ==
  IF i > Len(col_names) THEN unique
  ELSE UniqueFrom(col_names, Append(unique, NextUniqueName(col_names[i], unique)), i + 1)

UniqueColNames(col_names) == UniqueFrom(col_names, <<>>, 1)

(***************************************************************************)
(* pandas, as the code uses it.  A table is its row count and its columns  *)
(* in order; a column is its label, its cells, and src, the index of the   *)
(* Field Definition whose span produced the cells (0 for a computed        *)
(* column).  Cells keep their text: the type inference of read_fwf is not  *)
(* modelled.                                                               *)
(***************************************************************************)
NaN == [t |-> "nan", v |-> 0]
Text(chars) == [t |-> "text", v |-> chars]

\* One cell: the span of the line, stripped; nothing left reads as missing.
Cell(line, spec) ==
  LET chars == Strip(PySlice(line, spec.from, spec.to))
  IN IF chars = <<>> THEN NaN ELSE Text(chars)

\* skip_blank_lines: a line all of whose cells are empty is no row.
IsBlankRow(line, colspecs) == \A i \in 1..Len(colspecs) : Cell(line, colspecs[i]) = NaN

\* pd.read_fwf(input_file, colspecs=colspecs, header=None, names=names):
\* no skiprows, so every line of the file is read as data.
ReadFwf(lines, colspecs, names) ==
  LET rows == SelectSeq(lines, LAMBDA l : ~IsBlankRow(l, colspecs))
  IN [nrows |-> Len(rows),
      cols  |-> [i \in 1..Len(colspecs) |->
                   [name  |-> names[i],
                    src   |-> i,
                    cells |-> [r \in 1..Len(rows) |-> Cell(rows[r], colspecs[i])]]]]

\* df[labels]: for each label, the column carrying it.
SelectColumns(table, labels) ==
  [nrows |-> table.nrows,
   cols  |-> [k \in 1..Len(labels) |->
                table.cols[CHOOSE i \in 1..Len(table.cols) :
                             table.cols[i].name = labels[k]]]]

\* df[label] = value: every column with that label is overwritten in place;
\* a new column is appended only when no column has the label.
SetColumn(table, label, value) ==
  LET computed == [name |-> label, src |-> 0, cells |-> [r \in 1..table.nrows |-> value]]
  IN IF \E i \in 1..Len(table.cols) : table.cols[i].name = label
       THEN [table EXCEPT !.cols =
               [i \in 1..Len(table.cols) |->
                  IF table.cols[i].name = label THEN computed ELSE table.cols[i]]]
       ELSE [table EXCEPT !.cols = Append(table.cols, computed)]

\* process_fixed_width_file as a whole, for a schema it does not raise on.
process_fixed_width_file(lines, schema_config, filter_on) ==
  LET fields == schema_config.v.fields.v
      colspecs == [i \in 1..Len(fields) |-> ColSpec(fields[i])]
      table == ReadFwf(lines, colspecs, UniqueColNames(ColNames(fields, filter_on)))
  IN IF filter_on THEN SelectColumns(table, KeepColumns(fields, filter_on)) ELSE table


(***************************************************************************)
(* process_file, lines 163-179: classification of the header and the       *)
(* schema path.                                                            *)
(***************************************************************************)
\* Classify with the year rolled over up to and including month 15.
ClassifyRolloverInclusive(month, school_year_abbr) ==
  IF month < 10
    THEN [test_name |-> "staar", full_school_year |-> 2000 + school_year_abbr]
    ELSE [test_name |-> "staar_eoc",
          full_school_year |-> IF month <= 15 THEN 2000 + school_year_abbr + 1
                                              ELSE 2000 + school_year_abbr]

Classify(month, school_year_abbr) ==
  IF month < 10
    THEN [test_name |-> "staar", full_school_year |-> 2000 + school_year_abbr]
    ELSE [test_name |-> "staar_eoc",
          full_school_year |-> IF month < 15 THEN 2000 + school_year_abbr + 1
                                             ELSE 2000 + school_year_abbr]

BaseFolder(folder) == IF folder.t # "none" THEN folder.v ELSE "default_schema"

\* os.path.join(base_folder, test_name, f"{test_name}_{full_school_year}.yaml"),
\* as its components.
SchemaConfigFile(folder, name, year) ==
  <<BaseFolder(folder), name, name \o "_" \o ToString(year) \o ".yaml">>

(***************************************************************************)
(* The state.  input_file, fs_schema, schema_folder and filter_columns are *)
(* what a run is given: the lines of the input file, what the file system  *)
(* holds at the schema path, and the two arguments.  The rest are the      *)
(* locals of process_file and of process_fixed_width_file, what the run    *)
(* printed, the files it opened, and how it ended.                         *)
(***************************************************************************)
VARIABLES input_file, fs_schema, schema_folder, filter_columns,
          pc, header_line, test_month, test_name, full_school_year,
          schema_config_file, schema_config, col_names, unique_col_names,
          df, output_csv, stdout, opened, error, exit_status

inputs == <<input_file, fs_schema, schema_folder, filter_columns>>
header_vars == <<header_line, test_month, test_name, full_school_year, schema_config_file>>
decode_vars == <<col_names, unique_col_names, df>>
vars == <<inputs, pc, header_vars, schema_config, decode_vars,
          output_csv, stdout, opened, error, exit_status>>

NoTable == [nrows |-> 0, cols |-> <<>>]
NoFile == [written |-> FALSE, table |-> NoTable]


(***************************************************************************)
(* The inputs of the runs explored.                                        *)
(***************************************************************************)
MaxFields == 2
MaxDataLines == 1
MaxNames == 3
MaxElements == 2

SeqsUpTo(S, n) == UNION {[1..k -> S] : k \in 0..n}

\* First lines: too short (even once stripped), classified three ways,
\* padded, and not numeric.
FirstLines ==
  { <<"0", "5">>, <<" ", "0", "5", " ">>,
    <<"0", "5", "2", "4">>, <<"1", "2", "2", "4">>, <<"2", "0", "2", "4", "x">>,
    <<" ", "0", "5", "2", "4">>, <<"0", "x", "2", "4">> }

\* Data lines: a full line, a short line, a blank line.
DataLinePool == { <<"a", "b", "c">>, <<"a">>, <<" ", " ">> }

InputFiles ==
  {<<>>} \cup {<<h>> \o d : h \in FirstLines, d \in SeqsUpTo(DataLinePool, MaxDataLines)}

\* Field Definitions that validate_yaml_config accepts.
FieldPool ==
  { PyDict([start |-> PyInt(1), end |-> PyInt(2), output_field |-> PyStr("A"),
            keep |-> PyBool(TRUE), mapped_field_name |-> PyStr("A")]),
    PyDict([start |-> PyInt(2), end |-> PyInt(3), output_field |-> PyStr("A"),
            keep |-> PyBool(FALSE), mapped_field_name |-> PyStr("A")]),
    PyDict([start |-> PyInt(3), end |-> PyInt(3), output_field |-> PyStr("A_1"),
            keep |-> PyBool(TRUE), mapped_field_name |-> PyNone]),
    PyDict([start |-> PyInt(1), end |-> PyInt(1), output_field |-> PyStr("school_year"),
            mapped_field_name |-> PyStr("B")]),
    PyDict([start |-> PyInt(2), end |-> PyInt(2), output_field |-> PyStr("test_name"),
            keep |-> PyBool(TRUE)]),
    PyDict([start |-> PyBool(TRUE), end |-> PyInt(2), output_field |-> PyStr("B"),
            keep |-> PyBool(TRUE), mapped_field_name |-> PyStr("A")]) }

SchemaOf(fields) == PyDict([fields |-> PyList(fields)])

ValidSchemas == {SchemaOf(fs) : fs \in SeqsUpTo(FieldPool, MaxFields) \ {<<>>}}

\* Documents that validate_yaml_config rejects.
InvalidSchemas ==
  { PyList(<<>>),
    PyDict([columns |-> PyList(<<>>)]),
    SchemaOf(<<PyDict([end |-> PyInt(2), output_field |-> PyStr("A")])>>),
    SchemaOf(<<PyDict([start |-> PyInt(1), end |-> PyInt(2), output_field |-> PyStr("A"),
                       keep |-> PyStr("true")])>>) }

\* What the file system holds at the schema path: nothing, text that is not
\* YAML, or the text of a document.
SchemaFile(kind, doc) == [kind |-> kind, doc |-> doc]

SchemaFiles ==
  {SchemaFile("missing", PyNone), SchemaFile("malformed", PyNone)}
    \cup {SchemaFile("yaml", d) : d \in ValidSchemas \cup InvalidSchemas}

SchemaFolders == {PyNone, PyStr("schemas")}

HeaderLocals ==
  /\ header_line = <<>>
  /\ test_month = 0
  /\ test_name = ""
  /\ full_school_year = 0
  /\ schema_config_file = <<>>

NoEffects ==
  /\ df = NoTable
  /\ output_csv = NoFile
  /\ stdout = <<>>
  /\ opened = <<>>
  /\ error = "none"
  /\ exit_status = PyNone

Locals ==
  /\ HeaderLocals
  /\ col_names = <<>>
  /\ unique_col_names = <<>>
  /\ NoEffects

Init ==
  /\ input_file \in InputFiles
  /\ fs_schema \in SchemaFiles
  /\ schema_folder \in SchemaFolders
  /\ filter_columns \in BOOLEAN
  /\ schema_config = PyNone
  /\ pc = "read_header"
  /\ Locals

(***************************************************************************)
(* process_file, one action per block of the function.                     *)
(***************************************************************************)

OpenedFile(role, path) == [role |-> role, path |-> path]

\* f.readline(): the first line, or the empty string at end of file.
ReadLine(lines) == IF lines = <<>> THEN <<>> ELSE Head(lines)

\* Lines 156-161 without the length check.
ReadHeaderUnchecked ==
  /\ pc = "read_header"
  /\ header_line' = Strip(ReadLine(input_file))
  /\ opened' = Append(opened, OpenedFile("input", <<"input">>))
  /\ pc' = "extract"
  /\ UNCHANGED <<inputs, test_month, test_name, full_school_year, schema_config_file,
                 schema_config, decode_vars, output_csv, stdout, error, exit_status>>

\* Lines 156-161: read the first line; a header shorter than 4 raises.
ReadHeader ==
  /\ pc = "read_header"
  /\ header_line' = Strip(ReadLine(input_file))
  /\ opened' = Append(opened, OpenedFile("input", <<"input">>))
  /\ IF Len(header_line') < 4
       THEN pc' = "raised" /\ error' = "ValueError: header"
       ELSE pc' = "extract" /\ error' = error
  /\ UNCHANGED <<inputs, test_month, test_name, full_school_year, schema_config_file,
                 schema_config, decode_vars, output_csv, stdout, exit_status>>

\* Lines 163-180: parse the header, classify, resolve the schema path.
ExtractHeader ==
  /\ pc = "extract"
  /\ LET header == PySlice(header_line, 0, 4)
         month == PySlice(header, 0, 2)
         abbr == PySlice(header, 2, 4)
     IN IF IntParses(month) /\ IntParses(abbr)
          THEN LET c == Classify(ParseInt(month), ParseInt(abbr))
               IN /\ test_month' = ParseInt(month)
                  /\ test_name' = c.test_name
                  /\ full_school_year' = c.full_school_year
                  /\ schema_config_file' =
                       SchemaConfigFile(schema_folder, c.test_name, c.full_school_year)
                  /\ stdout' = Append(stdout, "Loading schema config")
                  /\ pc' = "load"
                  /\ error' = error
          ELSE /\ pc' = "raised"
               /\ error' = "ValueError: int"
               /\ UNCHANGED <<test_month, test_name, full_school_year,
                              schema_config_file, stdout>>
  /\ UNCHANGED <<inputs, header_line, schema_config, decode_vars, output_csv,
                 opened, exit_status>>

\* Line 183, load_yaml_config (lines 12-20): a missing file raises from
\* open, malformed text raises ValueError from the YAMLError.
LoadYaml ==
  /\ pc = "load"
  /\ IF fs_schema.kind = "missing"
       THEN /\ pc' = "raised"
            /\ error' = "FileNotFoundError"
            /\ UNCHANGED <<schema_config, opened>>
       ELSE /\ opened' = Append(opened, OpenedFile("schema", schema_config_file))
            /\ IF fs_schema.kind = "malformed"
                 THEN /\ pc' = "raised"
                      /\ error' = "ValueError: Error parsing YAML file"
                      /\ UNCHANGED schema_config
                 ELSE /\ schema_config' = fs_schema.doc
                      /\ pc' = "validate"
                      /\ error' = error
  /\ UNCHANGED <<inputs, header_vars, decode_vars, output_csv, stdout, exit_status>>

\* Lines 184-189 with the except clause falling through after printing.
ValidateSchemaNoExit ==
  /\ pc = "validate"
  /\ IF validate_yaml_config(schema_config).raised
       THEN stdout' = Append(stdout, "YAML validation error")
       ELSE stdout' = stdout
  /\ pc' = "decode"
  /\ UNCHANGED <<inputs, header_vars, schema_config, decode_vars, output_csv,
                 opened, error, exit_status>>

\* Lines 184-189: validate; on a ValueError print it and sys.exit(1).
ValidateSchema ==
  /\ pc = "validate"
  /\ IF validate_yaml_config(schema_config).raised
       THEN /\ stdout' = Append(stdout, "YAML validation error")
            /\ exit_status' = PyInt(1)
            /\ pc' = "exited"
       ELSE /\ pc' = "decode"
            /\ UNCHANGED <<stdout, exit_status>>
  /\ UNCHANGED <<inputs, header_vars, schema_config, decode_vars, output_csv,
                 opened, error>>

\* Line 192, process_fixed_width_file (lines 81-117).  The for loop of
\* line 86 raises KeyError at the first field without mapped_field_name.
Decode ==
  /\ pc = "decode"
  /\ LET fields == schema_config.v.fields.v
     IN IF \E i \in 1..Len(fields) : ColNameRaises(fields[i], filter_columns)
          THEN /\ pc' = "raised"
               /\ error' = "KeyError: mapped_field_name"
               /\ UNCHANGED <<decode_vars, opened>>
          ELSE /\ col_names' = ColNames(fields, filter_columns)
               /\ unique_col_names' = UniqueColNames(col_names')
               /\ df' = process_fixed_width_file(input_file, schema_config, filter_columns)
               /\ opened' = Append(opened, OpenedFile("input", <<"input">>))
               /\ pc' = "add_computed"
               /\ error' = error
  /\ UNCHANGED <<inputs, header_vars, schema_config, output_csv, stdout, exit_status>>

\* Lines 195-196: the two computed columns.
AddComputed ==
  /\ pc = "add_computed"
  /\ df' = SetColumn(SetColumn(df, "school_year", PyInt(full_school_year)),
                     "test_name", PyStr(test_name))
  /\ pc' = "write"
  /\ UNCHANGED <<inputs, header_vars, schema_config, col_names, unique_col_names,
                 output_csv, stdout, opened, error, exit_status>>

\* Lines 199-201: write the CSV and return the table.
WriteCsv ==
  /\ pc = "write"
  /\ output_csv' = [written |-> TRUE, table |-> df]
  /\ opened' = Append(opened, OpenedFile("output", <<"input_output.csv">>))
  /\ stdout' = Append(stdout, "Data has been written")
  /\ pc' = "done"
  /\ UNCHANGED <<inputs, header_vars, schema_config, decode_vars, error, exit_status>>

Next ==
  \/ ReadHeader
  \/ ExtractHeader
  \/ LoadYaml
  \/ ValidateSchema
  \/ Decode
  \/ AddComputed
  \/ WriteCsv

Spec == Init /\ [][Next]_vars


(***************************************************************************)
(* The header rule over every four-digit header.  The runs differ in the   *)
(* first line; the rest of a run is one of a few scenarios, so that every  *)
(* way process_file can end is among them.                                 *)
(***************************************************************************)
DigitHeaders == {<<DigitChars[a], DigitChars[b], DigitChars[c], DigitChars[d]>> :
                   a, b, c, d \in 1..Len(DigitChars)}

Scenarios ==
  { [schema |-> SchemaFile("missing", PyNone), filter_on |-> FALSE],
    [schema |-> SchemaFile("malformed", PyNone), filter_on |-> FALSE],
    [schema |-> SchemaFile("yaml", PyList(<<>>)), filter_on |-> FALSE],
    [schema |-> SchemaFile("yaml",
                  SchemaOf(<<PyDict([start |-> PyInt(1), end |-> PyInt(2),
                                     output_field |-> PyStr("A")])>>)),
     filter_on |-> TRUE],
    [schema |-> SchemaFile("yaml",
                  SchemaOf(<<PyDict([start |-> PyInt(1), end |-> PyInt(2),
                                     output_field |-> PyStr("A")])>>)),
     filter_on |-> FALSE] }

InitHeader ==
  /\ input_file \in {<<h, <<"a", "b", "c">> >> : h \in DigitHeaders \cup FirstLines}
  /\ \E sc \in Scenarios : fs_schema = sc.schema /\ filter_columns = sc.filter_on
  /\ schema_folder \in SchemaFolders
  /\ schema_config = PyNone
  /\ pc = "read_header"
  /\ Locals

SpecHeader == InitHeader /\ [][Next]_vars

(***************************************************************************)
(* validate_yaml_config called on its own, over documents built from every *)
(* kind of value.                                                          *)
(***************************************************************************)
Scalars == {PyInt(1), PyBool(TRUE), PyStr("true"), PyNone}

ValidatedKeys == {"start", "end", "output_field", "keep"}

FieldDicts == {PyDict(f) : f \in UNION {[K -> Scalars] : K \in SUBSET ValidatedKeys}}

Elements == Scalars \cup {PyList(<<>>)} \cup FieldDicts

Documents ==
  Scalars \cup {PyList(<<>>), PyDict(<<>>), PyDict([columns |-> PyList(<<>>)])}
    \cup {PyDict([fields |-> x]) : x \in Scalars \cup {PyDict(<<>>)}}
    \cup {SchemaOf(es) : es \in SeqsUpTo(Elements, MaxElements)}

NoInputs ==
  /\ input_file = <<>>
  /\ fs_schema = SchemaFile("missing", PyNone)
  /\ schema_folder = PyNone
  /\ filter_columns = FALSE

InitValidate ==
  /\ NoInputs
  /\ schema_config \in Documents
  /\ pc = "call_validate"
  /\ Locals

\* validate_yaml_config(config, file_path) returns.
ValidateReturns ==
  /\ pc = "call_validate"
  /\ ~validate_yaml_config(schema_config).raised
  /\ pc' = "validate_returned"
  /\ UNCHANGED <<inputs, header_vars, schema_config, decode_vars, output_csv,
                 stdout, opened, error, exit_status>>

\* validate_yaml_config(config, file_path) raises ValueError.
ValidateRaises ==
  /\ pc = "call_validate"
  /\ validate_yaml_config(schema_config).raised
  /\ pc' = "validate_raised"
  /\ error' = "ValueError: " \o validate_yaml_config(schema_config).msg
  /\ UNCHANGED <<inputs, header_vars, schema_config, decode_vars, output_csv,
                 stdout, opened, exit_status>>

NextValidate == ValidateReturns \/ ValidateRaises

SpecValidate == InitValidate /\ [][NextValidate]_vars

(***************************************************************************)
(* The de-duplication step of process_fixed_width_file (lines 98-109) on   *)
(* its own, over sequences of names, some of which already look suffixed.  *)
(***************************************************************************)
NamePool == {"A", "B", "A_1", "A_2", "A_1_1"}

InitDedup ==
  /\ NoInputs
  /\ schema_config = PyNone
  /\ pc = "call_dedup"
  /\ HeaderLocals
  /\ col_names \in SeqsUpTo(NamePool, MaxNames)
  /\ unique_col_names = <<>>
  /\ NoEffects

Deduplicate ==
  /\ pc = "call_dedup"
  /\ unique_col_names' = UniqueColNames(col_names)
  /\ pc' = "dedup_done"
  /\ UNCHANGED <<inputs, header_vars, schema_config, col_names, df, output_csv,
                 stdout, opened, error, exit_status>>

NextDedup == Deduplicate

SpecDedup == InitDedup /\ [][NextDedup]_vars


(***************************************************************************)
(* Properties.                                                             *)
(***************************************************************************)
Decoded == pc \in {"add_computed", "write", "done"}

SchemaOpened == \E i \in 1..Len(opened) : opened[i].role = "schema"

OutputOpened == \E i \in 1..Len(opened) : opened[i].role = "output"

\* C1: the table returned by process_file, and the table written to the
\* CSV, has exactly one row per line of the input after the first, so that
\* a file holding only the header yields no row.
C1_OneRowPerDataLine ==
  /\ Decoded => df.nrows = Len(input_file) - 1
  /\ output_csv.written => output_csv.table.nrows = Len(input_file) - 1

WellFormedField(field) ==
  /\ field.t = "dict"
  /\ {"start", "end", "output_field"} \subseteq DOMAIN field.v
  /\ field.v.start.t = "int"
  /\ field.v.end.t = "int"
  /\ field.v.output_field.t = "str"
  /\ "keep" \in DOMAIN field.v => field.v.keep.t = "bool"

WellFormedDocument(doc) ==
  /\ doc.t = "dict"
  /\ "fields" \in DOMAIN doc.v
  /\ doc.v.fields.t = "list"
  /\ \A i \in 1..Len(doc.v.fields.v) : WellFormedField(doc.v.fields.v[i])

\* C3: validate_yaml_config returns exactly for the documents of the
\* contract (a mapping whose 'fields' is a sequence of mappings with integer
\* 'start' and 'end', text 'output_field' and, if present, boolean 'keep'),
\* and raises a validation error for every other document.
C3_ValidatesExactlyTheContract ==
  /\ pc = "validate_returned" => WellFormedDocument(schema_config)
  /\ pc = "validate_raised" => ~WellFormedDocument(schema_config)

SchemaLoadFails == fs_schema.kind = "malformed"

SchemaRejected == fs_schema.kind = "yaml" /\ validate_yaml_config(fs_schema.doc).raised

\* C4: in a run whose schema file is malformed or is rejected by
\* validate_yaml_config, nothing past validation ever executes and the CSV
\* is never opened nor written; the run can only end raised (the parse
\* error propagated) or exited with status 1 after printing the validation
\* error.
C4_SchemaFailureWritesNothing ==
  (SchemaLoadFails \/ SchemaRejected)
  => /\ ~output_csv.written
     /\ ~OutputOpened
     /\ pc \in {"read_header", "extract", "load", "validate", "raised", "exited"}
     /\ pc = "exited" => /\ exit_status = PyInt(1)
                         /\ "YAML validation error" \in Range(stdout)
     /\ (pc = "raised" /\ SchemaOpened) => error = "ValueError: Error parsing YAML file"
     /\ (SchemaOpened /\ SchemaLoadFails) => pc = "raised"
     /\ (schema_config # PyNone) => pc \in {"validate", "exited"}

\* A run that a rejected schema ended with status 1 and no CSV.
C4_Witness ==
  /\ SchemaRejected
  /\ pc = "exited"
  /\ exit_status = PyInt(1)
  /\ ~output_csv.written

FirstLineShort == Len(ReadLine(input_file)) < 4

NoSchemaAccess ==
  /\ ~SchemaOpened
  /\ schema_config_file = <<>>
  /\ schema_config = PyNone

\* C5: when the first line has fewer than 4 characters the run raises the
\* format error and nothing else happens: no schema path is resolved, no
\* schema file opened or loaded, nothing decoded, printed or written; and a
\* schema is only ever accessed after a header of at least 4 characters.
C5_ShortHeaderFailsFirst ==
  /\ FirstLineShort
     => /\ pc \in {"read_header", "raised"}
        /\ pc = "raised" => error = "ValueError: header"
        /\ NoSchemaAccess
        /\ df = NoTable
        /\ stdout = <<>>
        /\ ~output_csv.written /\ ~OutputOpened
  /\ ~NoSchemaAccess => Len(header_line) >= 4

\* A run on a two-character first line, ended by the format error.
C5_Witness ==
  /\ input_file # <<>>
  /\ Len(Head(input_file)) = 2
  /\ pc = "raised"
  /\ error = "ValueError: header"

\* The indices of the Field Definitions with keep = true, in schema order.
RECURSIVE KeptInOrder(_, _)
KeptInOrder(fields, i) ==
  IF i > Len(fields) THEN <<>>
  ELSE (IF "keep" \in DOMAIN fields[i].v /\ fields[i].v.keep = PyBool(TRUE)
          THEN <<i>> ELSE <<>>) \o KeptInOrder(fields, i + 1)

\* C6: in filter mode the table process_fixed_width_file returns has one
\* column per Field Definition with keep = true, decoded from that Field
\* Definition, in schema order, and no other column.
C6_FilterKeepsExactlyKeptFields ==
  (filter_columns /\ pc = "add_computed")
  => LET kept == KeptInOrder(schema_config.v.fields.v, 1)
     IN /\ Len(df.cols) = Len(kept)
        /\ \A k \in 1..Len(df.cols) : df.cols[k].src = kept[k]

\* The name section 4.2 gives the column of a Field Definition.
SpecColName(field, filter_on) ==
  IF filter_on /\ "mapped_field_name" \in DOMAIN field.v
               /\ field.v.mapped_field_name # PyNone
    THEN field.v.mapped_field_name.v
    ELSE field.v.output_field.v

\* C7: once a schema has passed validation, decoding it never fails for a
\* missing mapped_field_name, and the column names chosen are
\* mapped_field_name where present in filter mode and output_field
\* otherwise.
C7_ColumnNaming ==
  /\ error # "KeyError: mapped_field_name"
  /\ Decoded => LET fields == schema_config.v.fields.v
                IN col_names = [i \in 1..Len(fields) |->
                                  SpecColName(fields[i], filter_columns)]

\* C8: the de-duplicated names are as many as the names given and are
\* pairwise distinct.
C8_UniqueNames ==
  pc = "dedup_done"
  => /\ Len(unique_col_names) = Len(col_names)
     /\ \A i, j \in 1..Len(unique_col_names) :
          i # j => unique_col_names[i] # unique_col_names[j]

\* Names in which a repeat collides with a name that already looks suffixed.
C8_Witness ==
  /\ pc = "dedup_done"
  /\ col_names = <<"A", "A", "A_1">>
  /\ unique_col_names = <<"A", "A_1", "A_1_1">>

\* Which occurrence of its name position i holds.
Occurrence(names, i) == Cardinality({k \in 1..i : names[k] = names[i]})

OnlyRepeatsRenamed ==
  \A i \in 1..Len(col_names) :
    LET j == Occurrence(col_names, i)
    IN unique_col_names[i] =
         IF j = 1 THEN col_names[i] ELSE col_names[i] \o "_" \o ToString(j - 1)

\* C9, as stated: for every sequence of names, a first occurrence keeps its
\* name and the j-th occurrence of X (j >= 2) becomes X_(j-1).
C9_OnlyRepeatsRenamed == pc = "dedup_done" => OnlyRepeatsRenamed

\* No name is another name of the sequence followed by _k, 1 <= k < length.
NoNameLooksSuffixed(names) ==
  \A i, j \in 1..Len(names) : \A k \in 1..(Len(names) - 1) :
    names[i] # names[j] \o "_" \o ToString(k)

\* C9, amended: for every sequence of names none of which is another of its
\* names followed by "_" and a number from 1 to its length minus one, a
\* first occurrence keeps its name and the j-th occurrence of X (j >= 2)
\* becomes X_(j-1).
C9_OnlyRepeatsRenamedUnlessSuffixed ==
  (pc = "dedup_done" /\ NoNameLooksSuffixed(col_names)) => OnlyRepeatsRenamed

\* ["A","A","A"] yields ["A","A_1","A_2"].
C9_Witness ==
  /\ pc = "dedup_done"
  /\ col_names = <<"A", "A", "A">>
  /\ unique_col_names = <<"A", "A_1", "A_2">>

\* C10: outside filter mode the table process_file produces has one column
\* per Field Definition, in schema order, followed by school_year and then
\* test_name, which hold in every row the year and name computed from the
\* header: n + 2 columns for n Field Definitions.
C10_ComputedColumnsLast ==
  (~filter_columns /\ pc \in {"write", "done"})
  => LET n == Len(schema_config.v.fields.v)
     IN /\ Len(df.cols) = n + 2
        /\ \A i \in 1..Min(n, Len(df.cols)) : df.cols[i].src = i
        /\ Len(df.cols) = n + 2 =>
             /\ df.cols[n + 1] = [name |-> "school_year", src |-> 0,
                                  cells |-> [r \in 1..df.nrows |-> PyInt(full_school_year)]]
             /\ df.cols[n + 2] = [name |-> "test_name", src |-> 0,
                                  cells |-> [r \in 1..df.nrows |-> PyStr(test_name)]]

=============================================================================
